---- MODULE Spec2Model ----
(***************************************************************************)
(* Model of the maintenance-projection core of FROTAS (src/revisao.py,     *)
(* class RevisaoCore).  The four spreadsheets are sequences of rows; the   *)
(* constructor sanitizes them, drops the out-of-fleet rows of the roster   *)
(* and of the intake log, builds the two derived tables and then the       *)
(* projection (self.previsao), one record per row of the merged frame.     *)
(*                                                                         *)
(* Values that pandas may leave missing are tagged records:                *)
(*   NONE (Python None / absent), NAN (NaN, NaT, pd.NA), Num(n), Str(s).   *)
(* Text is a sequence of one-character strings.  Dates are day numbers.    *)
(* The attribute columns bloco, igreja, marca and modelo are handled by    *)
(* the code exactly as responsavel, unidade and regiao (roster only) or    *)
(* ano_modelo (roster and intake log) and are represented by those.        *)
(*                                                                         *)
(* Three specifications share the constructor: Spec builds one object from *)
(* any small set of spreadsheets, SpecDuas builds two objects over the     *)
(* same files while the clock runs, and SpecRelatorios calls the report    *)
(* methods on the object built for a fleet of the roster.  A fourth,       *)
(* SpecNumeros, applies the numeric parsers to short texts.                *)
(***************************************************************************)
EXTENDS Integers, Sequences, FiniteSets, TLC

\* ------------------------------------------------------------ values
NONE == [t |-> "None", v |-> 0]
NAN == [t |-> "NaN", v |-> 0]
Num(n) == [t |-> "num", v |-> n]
Str(s) == [t |-> "str", v |-> s]

\* pd.isna / pd.notna
IsNA(x) == x.t \in {"None", "NaN"}
NotNA(x) == ~IsNA(x)

\* ------------------------------------------------------------ text
Lower == <<"a","b","c","d","e","f","g","h","i","j","k","l","m",
           "n","o","p","q","r","s","t","u","v","w","x","y","z">>
UpperL == <<"A","B","C","D","E","F","G","H","I","J","K","L","M",
            "N","O","P","Q","R","S","T","U","V","W","X","Y","Z">>
\* characters of the model in ASCII order (for the sort of group keys)
Digitos == <<"0","1","2","3","4","5","6","7","8","9">>
Alfabeto == <<" ", "(", ")", "-", ".">> \o Digitos \o UpperL \o Lower \o <<"á", "ã">>
Whitespace == {" "}

\* the position of each character in Alfabeto
Posicao == [c \in {Alfabeto[i] : i \in 1..Len(Alfabeto)} |->
               CHOOSE i \in 1..Len(Alfabeto) : Alfabeto[i] = c]

Ord(c) == Posicao[c]

\* str.upper(), one character
UpperChar(c) ==
    IF \E i \in 1..Len(Lower) : Lower[i] = c
    THEN UpperL[CHOOSE i \in 1..Len(Lower) : Lower[i] = c]
    ELSE c

\* str.upper()
Upper(s) == [i \in 1..Len(s) |-> UpperChar(s[i])]

\* str.replace(c, "")
Remove(s, c) == SelectSeq(s, LAMBDA x : x # c)

\* str.strip()
Strip(s) ==
    LET keep == {i \in 1..Len(s) : s[i] \notin Whitespace}
    IN  IF keep = {} THEN <<>>
        ELSE LET lo == CHOOSE i \in keep : \A j \in keep : i <= j
                 hi == CHOOSE i \in keep : \A j \in keep : j <= i
             IN  SubSeq(s, lo, hi)

\* lexicographic order of two texts (Python str comparison)
RECURSIVE StrLess(_, _)
StrLess(a, b) ==
    IF b = <<>> THEN FALSE
    ELSE IF a = <<>> THEN TRUE
    ELSE IF Ord(Head(a)) < Ord(Head(b)) THEN TRUE
    ELSE IF Ord(Head(a)) > Ord(Head(b)) THEN FALSE
    ELSE StrLess(Tail(a), Tail(b))

\* ------------------------------------------------------------ helpers
\* _norm_placa: "" for a non-string, else upper-case without "-" and " "
norm_placa(x) ==
    IF x.t # "str" THEN <<>>
    ELSE Strip(Remove(Remove(Upper(x.v), "-"), " "))

\* the characters of the class [A-Z0-9]
Alfanumericos == {UpperL[i] : i \in 1..Len(UpperL)} \cup {Digitos[i] : i \in 1..Len(Digitos)}

\* _norm_placa of cenarios_gerais.py: re.sub(r"[^A-Z0-9]", "", str(x or "").upper())
\* for a text or a missing value ("" for None; NaN is truthy and reads "NAN")
norm_placa_cenarios(x) ==
    LET t == IF x.t = "str" THEN x.v
             ELSE IF x.t = "NaN" THEN <<"n", "a", "n">>
             ELSE <<>>
    IN  SelectSeq(Upper(t), LAMBDA c : c \in Alfanumericos)

\* astype(str).str.upper().str.strip() of the status column
status_norm(x) ==
    IF x.t = "str" THEN Strip(Upper(x.v))
    ELSE IF x.t = "num" THEN <<"0">>
    ELSE IF x.t = "None" THEN <<"N","O","N","E">>
    ELSE <<"N","A","N">>

IGNORAR_STATUS ==
    { <<"V","E","N","D","I","D","O">>,
      <<"S","A","I","U"," ","D","A"," ","F","R","O","T","A">>,
      <<"B","A","I","X","A","D","O">>,
      <<"B","A","I","X","A">> }

\* ------------------------------------------------------------ sequences
Range(s) == {s[i] : i \in 1..Len(s)}

\* DataFrame.sort_values(key) on a short frame: rows with a key in
\* ascending order, equal keys in input order, rows with a missing key last.
\* key is a function from the row index to a tagged value.
SortPerm(n, key) ==
    LET before(i, j) ==
            \/ NotNA(key[i]) /\ IsNA(key[j])
            \/ NotNA(key[i]) /\ NotNA(key[j]) /\ key[i].v < key[j].v
            \/ NotNA(key[i]) /\ NotNA(key[j]) /\ key[i].v = key[j].v /\ i < j
            \/ IsNA(key[i]) /\ IsNA(key[j]) /\ i < j
        pos(i) == 1 + Cardinality({j \in 1..n : before(j, i)})
    IN  [p \in 1..n |-> CHOOSE i \in 1..n : pos(i) = p]

\* the rows in the order of their keys (keys[i] is the key of rows[i])
SortRows(rows, keys) ==
    LET n == Len(rows)
        perm == SortPerm(n, keys)
    IN  [p \in 1..n |-> rows[perm[p]]]

\* the distinct values of f over rows, in order of first appearance
\* (drop_duplicates keeps the first occurrence)
FirstSeen(vals) ==
    LET n == Len(vals)
        firsts == {i \in 1..n : \A j \in 1..(i-1) : vals[j] # vals[i]}
        pos(i) == Cardinality({j \in firsts : j <= i})
    IN  [p \in 1..Cardinality(firsts) |-> vals[CHOOSE i \in firsts : pos(i) = p]]

\* the texts of a set in ascending order (groupby sorts its keys)
SortedKeys(S) ==
    LET pos(k) == 1 + Cardinality({x \in S : StrLess(x, k)})
    IN  [p \in 1..Cardinality(S) |-> CHOOSE k \in S : pos(k) = p]

\* GroupBy.last() of one column: the last non-missing value of the group
LastValid(col) ==
    LET ok == {i \in 1..Len(col) : NotNA(col[i])}
    IN  IF ok = {} THEN NAN
        ELSE col[CHOOSE i \in ok : \A j \in ok : j <= i]

\* ------------------------------------------------------------ numbers
\* A float that comes out of a parse is n / 10^casas, kept without trailing
\* zeros: 1234.56 is Dec(123456, 2).
RECURSIVE Dec(_, _)
Dec(n, casas) ==
    IF casas > 0 /\ n % 10 = 0 THEN Dec(n \div 10, casas - 1)
    ELSE [t |-> "dec", n |-> n, casas |-> casas]

\* float(s) raised ValueError
ValueError == [t |-> "ValueError", n |-> 0, casas |-> 0]

\* the number that a text of decimal digits writes
RECURSIVE ValorDigitos(_)
ValorDigitos(s) ==
    IF s = <<>> THEN 0
    ELSE ValorDigitos(SubSeq(s, 1, Len(s) - 1)) * 10
         + (CHOOSE d \in 0..9 : Digitos[d + 1] = s[Len(s)])

\* float(s) for a text without exponent: blanks around it are dropped, then
\* an optional "-", digits with at most one "." and at least one digit
FloatDe(s) ==
    LET t == Strip(s)
        neg == t # <<>> /\ t[1] = "-"
        body == IF neg THEN Tail(t) ELSE t
        pontos == {i \in 1..Len(body) : body[i] = "."}
        digs == Remove(body, ".")
        casas == IF pontos = {} THEN 0 ELSE Len(body) - (CHOOSE i \in pontos : TRUE)
    IN  IF /\ digs # <<>>
           /\ Range(digs) \subseteq Range(Digitos)
           /\ Cardinality(pontos) <= 1
        THEN Dec((IF neg THEN -1 ELSE 1) * ValorDigitos(digs), casas)
        ELSE ValueError

\* str.replace(a, b) for single characters
Replace(s, a, b) == [i \in 1..Len(s) |-> IF s[i] = a THEN b ELSE s[i]]

\* str.replace("R$", "")
RECURSIVE SemCifrao(_)
SemCifrao(s) ==
    IF Len(s) < 2 THEN s
    ELSE IF s[1] = "R" /\ s[2] = "$" THEN SemCifrao(SubSeq(s, 3, Len(s)))
    ELSE <<s[1]>> \o SemCifrao(Tail(s))

\* _to_num of revisao.py: NaN for a missing cell and for a text that float()
\* rejects; in a text every "." , " " and "R$" is removed and "," becomes "."
to_num(x) ==
    IF IsNA(x) THEN NAN
    ELSE IF x.t = "str" THEN
        LET f == FloatDe(Replace(SemCifrao(Remove(Remove(x.v, "."), " ")), ",", "."))
        IN  IF f = ValueError THEN NAN ELSE f
    ELSE Dec(x.v, 0)

\* _num of condutor.py: str(s or "").strip(), every character but digits,
\* ",", "." and "-" removed; with both "," and "." the "." is dropped and
\* the "," becomes "."; otherwise "," becomes "."; 0.0 when float() rejects
num(x) ==
    LET raw == IF x.t = "str" THEN x.v
               ELSE IF x.t = "NaN" THEN <<"n", "a", "n">>
               ELSE IF x.t = "num" /\ x.v # 0 THEN <<Digitos[x.v + 1]>>
               ELSE <<>>
        t == SelectSeq(Strip(raw), LAMBDA c : c \in Range(Digitos) \cup {",", ".", "-"})
        u == IF "," \in Range(t) /\ "." \in Range(t)
             THEN Replace(Remove(t, "."), ",", ".")
             ELSE Replace(t, ",", ".")
        f == FloatDe(u)
    IN  IF Strip(raw) = <<>> \/ f = ValueError THEN Dec(0, 0) ELSE f

\* ------------------------------------------------------------ dates
\* A date is its number of days since 1970-01-01 (datetime.date arithmetic:
\* d + timedelta(days=n) is d + n, (a - b).days is a - b).
\* date.year of the proleptic Gregorian calendar.
YearOf(d) ==
    LET z == d + 719468
        era == z \div 146097
        doe == z - era * 146097
        yoe == (doe - doe \div 1460 + doe \div 36524 - doe \div 146096) \div 365
        doy == doe - (365 * yoe + yoe \div 4 - yoe \div 100)
        mp == (5 * doy + 2) \div 153
        m == IF mp < 10 THEN mp + 3 ELSE mp - 9
    IN  yoe + era * 400 + (IF m <= 2 THEN 1 ELSE 0)

\* date.month
MonthOf(d) ==
    LET z == d + 719468
        era == z \div 146097
        doe == z - era * 146097
        yoe == (doe - doe \div 1460 + doe \div 36524 - doe \div 146096) \div 365
        doy == doe - (365 * yoe + yoe \div 4 - yoe \div 100)
        mp == (5 * doy + 2) \div 153
    IN  IF mp < 10 THEN mp + 3 ELSE mp - 9

\* f"{d.year}-{d.month:02d}" for a year of four digits
AnoMes(d) ==
    LET y == YearOf(d)
        m == MonthOf(d)
        dig(n) == Digitos[n + 1]
    IN  <<dig(y \div 1000), dig((y \div 100) % 10), dig((y \div 10) % 10), dig(y % 10),
          "-", dig(m \div 10), dig(m % 10)>>

\* int(x / 50): Python truncates toward zero
TruncDiv(x, n) == IF x < 0 THEN -((-x) \div n) ELSE x \div n

\* ------------------------------------------------------------ constants
IntervaloDias == 365
IntervaloKm == 10000
LimiteDias == 30
LimiteKm == 1000
IdadeRenovacao == 3
KmPorDia == 50
CustoReferencia == 500
\* stands for the 9e9 of _ord (larger than every remainder of the model)
SemValor == 2000000000

\* ------------------------------------------------------------ state
VARIABLES
    relogio,              \* the date that datetime.now().date() returns
    pc,                   \* "novo": files chosen; "pronto": constructed; "erro": __init__ raised
    hoje,                 \* self.hoje (0 before __init__)
    arq_resp, arq_rev, arq_cad, arq_ext,   \* rows that _load reads from the four paths
    resp, rev, cad, ext,  \* self.resp, self.rev, self.cad, self.ext
    base_ult_revisao,     \* self.base_ult_revisao
    km_por_abastecimento, \* self.km_por_abastecimento
    previsao,             \* self.previsao
    relatorio,            \* what the last call of a report method returned
    outra,                \* a second RevisaoCore over the same four paths
    entrada,              \* the cell that the parsing helpers are given
    saida                 \* what the last call of a parsing helper returned

vars == <<relogio, relatorio, outra, entrada, saida, pc, hoje, arq_resp, arq_rev, arq_cad, arq_ext, resp, rev, cad, ext,
          base_ult_revisao, km_por_abastecimento, previsao>>

\* ------------------------------------------------------------ sanitize
\* _sanitize_df on the roster: placa_norm and status_norm_any are added
SanitizeResp(rows) ==
    [i \in 1..Len(rows) |->
        [placa_norm |-> norm_placa(rows[i].placa),
         status_norm_any |-> status_norm(rows[i].status),
         responsavel |-> rows[i].responsavel,
         unidade |-> rows[i].unidade,
         regiao |-> rows[i].regiao,
         ano_modelo |-> rows[i].ano_modelo]]

\* _sanitize_df on the maintenance log (no status column)
SanitizeRev(rows) ==
    [i \in 1..Len(rows) |->
        [placa_norm |-> norm_placa(rows[i].placa),
         data |-> rows[i].data,
         km |-> rows[i].km,
         oficina |-> rows[i].oficina,
         custo |-> rows[i].custo]]

\* _sanitize_df on the intake log
SanitizeCad(rows) ==
    [i \in 1..Len(rows) |->
        [placa_norm |-> norm_placa(rows[i].placa),
         status_norm_any |-> status_norm(rows[i].status),
         data_inicio |-> rows[i].data_inicio,
         ano_modelo |-> rows[i].ano_modelo]]

\* _sanitize_df on the fuel log (no status column)
SanitizeExt(rows) ==
    [i \in 1..Len(rows) |->
        [placa_norm |-> norm_placa(rows[i].placa),
         data |-> rows[i].data,
         km |-> rows[i].km]]

\* _apply_status_filters._filter
FilterStatus(rows) ==
    SelectSeq(rows, LAMBDA r : r.status_norm_any \notin IGNORAR_STATUS)

\* ------------------------------------------------------------ derived tables
RowsOf(rows, placa) == SelectSeq(rows, LAMBDA r : r.placa_norm = placa)

\* _build_ultima_revisao_por_placa without its sort_values: the last entry
\* of the input order is kept
UltimaRevisaoSemOrdenar(revS) ==
    IF revS = <<>> THEN <<>>
    ELSE
        LET keys == SortedKeys({revS[i].placa_norm : i \in 1..Len(revS)})
            km0(x) == IF x.t = "num" /\ x.v = 0 THEN NAN ELSE x
        IN  [k \in 1..Len(keys) |->
                LET g == RowsOf(revS, keys[k])
                IN  [placa_norm |-> keys[k],
                     data_ult_rev |-> LastValid([i \in 1..Len(g) |-> g[i].data]),
                     km_na_rev |-> km0(LastValid([i \in 1..Len(g) |-> g[i].km])),
                     oficina |-> LastValid([i \in 1..Len(g) |-> g[i].oficina]),
                     custo_rev |-> LastValid([i \in 1..Len(g) |-> g[i].custo])]]

\* _build_ultima_revisao_por_placa
UltimaRevisaoPorPlaca(revS) ==
    IF revS = <<>> THEN <<>>
    ELSE
        LET df == SortRows(revS, [i \in 1..Len(revS) |-> revS[i].data])
            keys == SortedKeys({df[i].placa_norm : i \in 1..Len(df)})
            km0(x) == IF x.t = "num" /\ x.v = 0 THEN NAN ELSE x
        IN  [k \in 1..Len(keys) |->
                LET g == RowsOf(df, keys[k])
                IN  [placa_norm |-> keys[k],
                     data_ult_rev |-> LastValid([i \in 1..Len(g) |-> g[i].data]),
                     km_na_rev |-> km0(LastValid([i \in 1..Len(g) |-> g[i].km])),
                     oficina |-> LastValid([i \in 1..Len(g) |-> g[i].oficina]),
                     custo_rev |-> LastValid([i \in 1..Len(g) |-> g[i].custo])]]

\* _build_km_abastecimentos
KmAbastecimentos(extS) ==
    LET d == SelectSeq(extS, LAMBDA r : NotNA(r.data))
    IN  [i \in 1..Len(d) |->
            [placa_norm |-> d[i].placa_norm,
             data_abast |-> d[i].data,
             km_abast |-> d[i].km]]

Abs(x) == IF x < 0 THEN -x ELSE x

\* _closest_refuel_to: <<km, date>>
closest_refuel_to(kmab, placa_norm, data_ref) ==
    LET d == RowsOf(kmab, placa_norm)
    IN  IF d = <<>> THEN <<NONE, NONE>>
        ELSE IF data_ref.t # "num" THEN
            LET s == SortRows(d, [i \in 1..Len(d) |-> d[i].data_abast])
            IN  <<s[Len(s)].km_abast, s[Len(s)].data_abast>>
        ELSE
            LET s == SortRows(d, [i \in 1..Len(d) |-> Num(Abs(d[i].data_abast.v - data_ref.v))])
            IN  <<s[1].km_abast, s[1].data_abast>>

\* the last event of the plate in the order of the fuel log, without the sort
last_refuel_km_sem_ordenar(kmab, placa_norm) ==
    LET d == RowsOf(kmab, placa_norm)
    IN  IF d = <<>> THEN <<NONE, NONE>>
        ELSE <<d[Len(d)].km_abast, d[Len(d)].data_abast>>

\* _last_refuel_km: <<km, date>>
last_refuel_km(kmab, placa_norm) ==
    LET d == RowsOf(kmab, placa_norm)
    IN  IF d = <<>> THEN <<NONE, NONE>>
        ELSE LET s == SortRows(d, [i \in 1..Len(d) |-> d[i].data_abast])
             IN  <<s[Len(s)].km_abast, s[Len(s)].data_abast>>

\* ------------------------------------------------------------ projection
\* the classification entered only when both remainders are known
ClassificarAmbos(dias_falt, km_falt) ==
    IF dias_falt.t = "None" \/ km_falt.t = "None" THEN "Desconhecido"
    ELSE
        LET vencido == dias_falt.v < 0 \/ km_falt.v < 0
            atencao == dias_falt.v < LimiteDias \/ km_falt.v < LimiteKm
        IN  IF vencido THEN "Vencido"
            ELSE IF atencao THEN "Atenção"
            ELSE "Em dia"

\* the classification with inclusive attention thresholds
ClassificarInclusivo(dias_falt, km_falt) ==
    IF dias_falt.t = "None" /\ km_falt.t = "None" THEN "Desconhecido"
    ELSE
        LET vencido == \/ dias_falt.t # "None" /\ dias_falt.v < 0
                       \/ km_falt.t # "None" /\ km_falt.v < 0
            atencao == \/ dias_falt.t # "None" /\ dias_falt.v <= LimiteDias
                       \/ km_falt.t # "None" /\ km_falt.v <= LimiteKm
        IN  IF vencido THEN "Vencido"
            ELSE IF atencao THEN "Atenção"
            ELSE "Em dia"

\* the classification with the day threshold read the wrong way round:
\* attention from 30 days on
ClassificarLimiarTrocado(dias_falt, km_falt) ==
    IF dias_falt.t = "None" /\ km_falt.t = "None" THEN "Desconhecido"
    ELSE
        LET vencido == \/ dias_falt.t # "None" /\ dias_falt.v < 0
                       \/ km_falt.t # "None" /\ km_falt.v < 0
            atencao == \/ dias_falt.t # "None" /\ dias_falt.v >= LimiteDias
                       \/ km_falt.t # "None" /\ km_falt.v < LimiteKm
        IN  IF vencido THEN "Vencido"
            ELSE IF atencao THEN "Atenção"
            ELSE "Em dia"

\* status of one row (the classification of _build_previsao)
Classificar(dias_falt, km_falt) ==
    IF dias_falt.t = "None" /\ km_falt.t = "None" THEN "Desconhecido"
    ELSE
        LET vencido == \/ dias_falt.t # "None" /\ dias_falt.v < 0
                       \/ km_falt.t # "None" /\ km_falt.v < 0
            atencao == \/ dias_falt.t # "None" /\ dias_falt.v < LimiteDias
                       \/ km_falt.t # "None" /\ km_falt.v < LimiteKm
        IN  IF vencido THEN "Vencido"
            ELSE IF atencao THEN "Atenção"
            ELSE "Em dia"

\* a baseline that knows the maintenance log only
DataBaseSoRevisao(data_ult, data_ini) ==
    IF NotNA(data_ult) THEN data_ult ELSE NONE

\* data_base: the last maintenance date, else the intake date, else None
DataBase(data_ult, data_ini) ==
    IF NotNA(data_ult) THEN data_ult
    ELSE IF NotNA(data_ini) THEN data_ini
    ELSE NONE

\* the due date one day later: the same day of the next year when a 29th of
\* February lies in between
ProxDataMaisUm(data_base) ==
    IF data_base.t = "num" THEN Num(data_base.v + IntervaloDias + 1) ELSE NONE

\* prox_data = data_base + timedelta(days=365)
ProxData(data_base) ==
    IF data_base.t = "num" THEN Num(data_base.v + IntervaloDias) ELSE NONE

\* the subtraction the other way round: days elapsed since the due date
DiasFaltInvertido(prox_data, h) ==
    IF prox_data.t = "num" THEN Num(h - prox_data.v) ELSE NONE

\* dias_falt = (prox_data - self.hoje).days
DiasFalt(prox_data, h) ==
    IF prox_data.t = "num" THEN Num(prox_data.v - h) ELSE NONE

\* a baseline odometer that falls back on the fuel series: without maintenance
\* date the latest reading of the plate is the baseline
KmBaseMetaPeloAbastecimento(kmab, placa, data_ult) ==
    LET c == closest_refuel_to(kmab, placa, data_ult)
    IN  IF NotNA(data_ult) \/ NotNA(c[1])
        THEN <<c[1], c[2], IF NotNA(c[1]) THEN Num(c[1].v + IntervaloKm) ELSE NONE>>
        ELSE <<Num(0), NONE, Num(IntervaloKm)>>

\* <<km_base, data_km_base, km_meta>>
KmBaseMeta(kmab, placa, data_ult) ==
    IF NotNA(data_ult) THEN
        LET c == closest_refuel_to(kmab, placa, data_ult)
        IN  <<c[1], c[2], IF NotNA(c[1]) THEN Num(c[1].v + IntervaloKm) ELSE NONE>>
    ELSE <<Num(0), NONE, Num(IntervaloKm)>>

\* km_falt
KmFalt(km_meta, km_ultimo) ==
    IF km_meta.t # "None" /\ NotNA(km_ultimo) THEN Num(km_meta.v - km_ultimo.v)
    ELSE IF km_meta.t # "None" /\ km_ultimo.t = "None" THEN km_meta
    ELSE NONE

\* ano_mod = int(str(ano_mod_raw).strip()[:4]) when the raw value is present
AnoMod(raw) == IF raw.t = "num" THEN raw ELSE NONE

\* prox_real_em_dias
ProxReal(dias_falt, km_falt) ==
    LET por_km == IF km_falt.t # "None" THEN Num(TruncDiv(km_falt.v, KmPorDia)) ELSE NONE
    IN  IF dias_falt.t # "None" /\ por_km.t # "None"
        THEN Num(IF dias_falt.v <= por_km.v THEN dias_falt.v ELSE por_km.v)
        ELSE IF dias_falt.t # "None" THEN dias_falt ELSE por_km

\* renov_agora with a strict comparison: older than the renewal age only
RenovacaoAgoraEstrita(ano_mod, h) ==
    /\ ano_mod.t = "num" /\ ano_mod.v # 0
    /\ YearOf(h) - ano_mod.v > IdadeRenovacao

\* renov_agora: False unless "if ano_mod:" passes (a year that is not 0)
RenovacaoAgora(ano_mod, h) ==
    /\ ano_mod.t = "num" /\ ano_mod.v # 0
    /\ YearOf(h) - ano_mod.v >= IdadeRenovacao

\* renov_prox: False unless ano_mod and prox_data are there
RenovacaoNaProxima(ano_mod, prox_data) ==
    /\ ano_mod.t = "num" /\ ano_mod.v # 0
    /\ prox_data.t = "num"
    /\ YearOf(prox_data.v) - ano_mod.v >= IdadeRenovacao

\* one iteration of the loop over base.iterrows(): b is a row of the merged frame
LinhaPrevisao(b, kmab, h) ==
    LET ano_mod == AnoMod(b.ano_modelo)
        data_base == DataBase(b.data_ult_rev, b.data_inicio)
        prox_data == ProxData(data_base)
        dias_falt == DiasFalt(prox_data, h)
        kb == KmBaseMeta(kmab, b.placa_norm, b.data_ult_rev)
        ku == last_refuel_km(kmab, b.placa_norm)
        km_falt == KmFalt(kb[3], ku[1])
    IN  [placa |-> b.placa_norm,
         responsavel |-> b.responsavel,
         unidade |-> b.unidade,
         regiao |-> b.regiao,
         ano_modelo |-> ano_mod,
         data_base |-> data_base,
         prox_data_por_tempo |-> prox_data,
         dias_faltando |-> dias_falt,
         km_base |-> kb[1],
         data_km_base |-> kb[2],
         km_meta |-> kb[3],
         km_ultimo |-> ku[1],
         data_km_ultimo |-> ku[2],
         km_faltando |-> km_falt,
         oficina |-> b.oficina,
         status |-> Classificar(dias_falt, km_falt),
         renovacao_agora |-> RenovacaoAgora(ano_mod, h),
         renovacao_na_proxima |-> RenovacaoNaProxima(ano_mod, prox_data),
         prox_real_em_dias |-> ProxReal(dias_falt, km_falt)]

\* forward fill then backward fill of a column
FfillBfill(col) ==
    [i \in 1..Len(col) |->
        LET prev == {j \in 1..i : NotNA(col[j])}
            next == {j \in i..Len(col) : NotNA(col[j])}
        IN  IF prev # {} THEN col[CHOOSE j \in prev : \A k \in prev : k <= j]
            ELSE IF next # {} THEN col[CHOOSE j \in next : \A k \in next : j <= k]
            ELSE col[i]]

\* the attribute snapshot det of _build_previsao, one entry per plate of placas:
\* [responsavel, unidade, regiao, ano_modelo].  respF and cadF are the
\* filtered roster and intake log; the intake log has no column of the names
\* that _inferir_colunas finds in the roster for responsavel, unidade, regiao.
Det(placas, respF, cadF) ==
    LET n == Len(placas)
        colOf(src, placa, c) == LET g == RowsOf(src, placa)
                                IN  [i \in 1..Len(g) |-> g[i][c]]
        \* the merged value: NaN for a plate the source does not hold
        take(col) == IF Len(col) = 0 THEN NAN ELSE LastValid(col)
        fill(src, c) == FfillBfill([i \in 1..n |-> take(colOf(src, placas[i], c))])
    IN  IF respF # <<>> /\ cadF # <<>> THEN
            \* the second merge renames the columns to *_x / *_y and the
            \* loop assigns an empty Series to each attribute
            [i \in 1..n |-> [responsavel |-> NAN, unidade |-> NAN,
                             regiao |-> NAN, ano_modelo |-> NAN]]
        ELSE IF respF # <<>> THEN
            LET r == fill(respF, "responsavel")
                u == fill(respF, "unidade")
                g == fill(respF, "regiao")
                a == fill(respF, "ano_modelo")
            IN  [i \in 1..n |-> [responsavel |-> r[i], unidade |-> u[i],
                                 regiao |-> g[i], ano_modelo |-> a[i]]]
        ELSE IF cadF # <<>> THEN
            LET a == fill(cadF, "ano_modelo")
            IN  [i \in 1..n |-> [responsavel |-> NAN, unidade |-> NAN,
                                 regiao |-> NAN, ano_modelo |-> a[i]]]
        ELSE [i \in 1..n |-> [responsavel |-> NONE, unidade |-> NONE,
                              regiao |-> NONE, ano_modelo |-> NONE]]

\* the plates of the four frames: concat, drop_duplicates, drop ""
Placas(respF, revS, cadF, extS) ==
    LET col(rows) == [i \in 1..Len(rows) |-> rows[i].placa_norm]
        all == col(respF) \o col(revS) \o col(cadF) \o col(extS)
    IN  SelectSeq(FirstSeen(all), LAMBDA p : p # <<>>)

\* the rows of the left merge with cad[["placa_norm", "data_inicio"]] for one
\* row of the left frame: one row per intake record of the plate
MergeCad(left, cadF) ==
    LET m == RowsOf(cadF, left.placa_norm)
        with(d) == [placa_norm |-> left.placa_norm,
                    responsavel |-> left.responsavel,
                    unidade |-> left.unidade,
                    regiao |-> left.regiao,
                    ano_modelo |-> left.ano_modelo,
                    data_ult_rev |-> left.data_ult_rev,
                    oficina |-> left.oficina,
                    data_inicio |-> d]
    IN  IF m = <<>> THEN << with(NAN) >>
        ELSE [i \in 1..Len(m) |-> with(m[i].data_inicio)]

RECURSIVE Flatten(_)
Flatten(ss) == IF ss = <<>> THEN <<>> ELSE Head(ss) \o Flatten(Tail(ss))

\* base = placas.merge(det).merge(ult).merge(cad[["placa_norm","data_inicio"]])
BaseMerge(respF, revS, cadF, extS, ult) ==
    LET placas == Placas(respF, revS, cadF, extS)
        det == Det(placas, respF, cadF)
        u(p) == RowsOf(ult, p)
        left(i) == [placa_norm |-> placas[i],
                    responsavel |-> det[i].responsavel,
                    unidade |-> det[i].unidade,
                    regiao |-> det[i].regiao,
                    ano_modelo |-> det[i].ano_modelo,
                    data_ult_rev |-> IF u(placas[i]) = <<>> THEN NAN
                                     ELSE u(placas[i])[1].data_ult_rev,
                    oficina |-> IF u(placas[i]) = <<>> THEN NAN
                                ELSE u(placas[i])[1].oficina]
    IN  Flatten([i \in 1..Len(placas) |-> MergeCad(left(i), cadF)])

\* the sort key _ord of one row.  pd.DataFrame(rows) turns a None into NaN in
\* a column that holds a number in some other row; "is not None" is then true
\* and min(NaN, b) is NaN, min(a, NaN) is a.
OrdKey(rows, r) ==
    LET diasNum == \E x \in Range(rows) : x.dias_faltando.t = "num"
        kmNum == \E x \in Range(rows) : x.km_faltando.t = "num"
        a == IF r.dias_faltando.t = "num" THEN r.dias_faltando
             ELSE IF diasNum THEN NAN ELSE Num(SemValor)
        b == IF r.km_faltando.t = "num" THEN r.km_faltando
             ELSE IF kmNum THEN NAN ELSE Num(SemValor)
    IN  IF a.t = "NaN" THEN NAN
        ELSE IF b.t = "NaN" THEN a
        ELSE IF b.v < a.v THEN b ELSE a

\* _build_previsao when it returns: the rows sorted by _ord
BuildPrevisao(respF, revS, cadF, extS, ult, kmab, h) ==
    LET base == BaseMerge(respF, revS, cadF, extS, ult)
        rows == [i \in 1..Len(base) |-> LinhaPrevisao(base[i], kmab, h)]
    IN  SortRows(rows, [i \in 1..Len(rows) |-> OrdKey(rows, rows[i])])

\* _build_previsao raises KeyError: 'placa_norm' is no column of an intake
\* frame that _load returned empty, and some frame holds plates
PrevisaoRaises(respF, revS, cadF, extS, arqCad) ==
    /\ respF # <<>> \/ revS # <<>> \/ cadF # <<>> \/ extS # <<>>
    /\ arqCad = <<>>

\* what __init__ leaves in self.previsao when it reads the four files on day
\* h: [pc |-> "pronto", previsao |-> rows], or pc "erro" when it raises
PrevisaoDe(aresp, arev, acad, aext, h) ==
    LET respF == FilterStatus(SanitizeResp(aresp))
        revS == SanitizeRev(arev)
        cadF == FilterStatus(SanitizeCad(acad))
        extS == SanitizeExt(aext)
        ult == UltimaRevisaoPorPlaca(revS)
        kmab == KmAbastecimentos(extS)
    IN  IF PrevisaoRaises(respF, revS, cadF, extS, acad)
        THEN [pc |-> "erro", previsao |-> <<>>]
        ELSE [pc |-> "pronto",
              previsao |-> BuildPrevisao(respF, revS, cadF, extS, ult, kmab, h)]

\* ------------------------------------------------------------ reports
SemResponsavel == <<"(","S","e","m"," ","r","e","s","p","o","n","s","á","v","e","l",")">>
SemUnidade == <<"(","S","e","m"," ","u","n","i","d","a","d","e",")">>
SemRegiao == <<"(","S","e","m"," ","r","e","g","i","ã","o",")">>
SemOficina == <<"(","S","e","m"," ","o","f","i","c","i","n","a",")">>

\* cat(x): the text itself, the placeholder for a blank or missing one
Cat(x, vazio) == IF x.t = "str" /\ Strip(x.v) # <<>> THEN x.v ELSE vazio

\* (s == st).sum(): how many rows have the status
ContaStatus(rows, st) == Cardinality({i \in 1..Len(rows) : rows[i].status = st})

\* groupby(c).agg(total, vencido, atencao, em_dia) after cat(), then
\* sort_values(["vencido","atencao","total"], descending): one record per
\* group [chave, total, vencido, atencao, em_dia]; groupby yields the keys in
\* ascending order and the sort keeps that order among equal groups
ResumoPorCategoria(prev, c, vazio) ==
    LET chave(i) == Cat(prev[i][c], vazio)
        keys == SortedKeys({chave(i) : i \in 1..Len(prev)})
        grupo(k) == SelectSeq(prev, LAMBDA r : Cat(r[c], vazio) = k)
        g == [k \in 1..Len(keys) |->
                 [chave |-> keys[k],
                  total |-> Len(grupo(keys[k])),
                  vencido |-> ContaStatus(grupo(keys[k]), "Vencido"),
                  atencao |-> ContaStatus(grupo(keys[k]), "Atenção"),
                  em_dia |-> ContaStatus(grupo(keys[k]), "Em dia")]]
        n == Len(prev) + 1
    IN  SortRows(g, [k \in 1..Len(g) |->
                        Num(0 - ((g[k].vencido * n + g[k].atencao) * n + g[k].total))])

\* agg_por_responsavel
AggPorResponsavel(prev) ==
    LET g == ResumoPorCategoria(prev, "responsavel", SemResponsavel)
    IN  [k \in 1..Len(g) |->
            [responsavel |-> g[k].chave, total |-> g[k].total, vencido |-> g[k].vencido,
             atencao |-> g[k].atencao, em_dia |-> g[k].em_dia]]

\* agg_por_unidade
AggPorUnidade(prev) ==
    LET g == ResumoPorCategoria(prev, "unidade", SemUnidade)
    IN  [k \in 1..Len(g) |->
            [unidade |-> g[k].chave, total |-> g[k].total, vencido |-> g[k].vencido,
             atencao |-> g[k].atencao, em_dia |-> g[k].em_dia]]

\* agg_por_regiao
AggPorRegiao(prev) ==
    LET g == ResumoPorCategoria(prev, "regiao", SemRegiao)
    IN  [k \in 1..Len(g) |->
            [regiao |-> g[k].chave, total |-> g[k].total, vencido |-> g[k].vencido,
             atencao |-> g[k].atencao, em_dia |-> g[k].em_dia]]

\* a count of the runs of adjacent rows with the same workshop: what a
\* grouping that does not bring equal keys together returns
AggPorOficinaAdjacentes(prev) ==
    LET chave(i) == Cat(prev[i].oficina, SemOficina)
        inicio == {i \in 1..Len(prev) : i = 1 \/ chave(i - 1) # chave(i)}
        fim(i) == CHOOSE j \in i..Len(prev) :
                      /\ \A k \in i..j : chave(k) = chave(i)
                      /\ j = Len(prev) \/ chave(j + 1) # chave(i)
        ini == SortRows([i \in 1..Len(prev) |-> i],
                        [i \in 1..Len(prev) |-> IF i \in inicio THEN Num(i) ELSE NAN])
        g == [k \in 1..Cardinality(inicio) |->
                 [oficina |-> chave(ini[k]), qtd |-> fim(ini[k]) - ini[k] + 1]]
    IN  SortRows(g, [k \in 1..Len(g) |-> Num(0 - g[k].qtd)])

\* agg_por_oficina: groupby("oficina").size() after cat(), largest first
AggPorOficina(prev) ==
    LET keys == SortedKeys({Cat(prev[i].oficina, SemOficina) : i \in 1..Len(prev)})
        g == [k \in 1..Len(keys) |->
                 [oficina |-> keys[k],
                  qtd |-> Cardinality({i \in 1..Len(prev) :
                                          Cat(prev[i].oficina, SemOficina) = keys[k]})]]
    IN  SortRows(g, [k \in 1..Len(g) |-> Num(0 - g[k].qtd)])

\* agg_por_ano_modelo: groupby drops the rows without model year; the groups
\* come in ascending order of the year
AggPorAnoModelo(prev) ==
    LET anos == {prev[i].ano_modelo.v : i \in {j \in 1..Len(prev) : prev[j].ano_modelo.t = "num"}}
        do(a) == {i \in 1..Len(prev) : prev[i].ano_modelo = Num(a)}
        g == [a \in anos |->
                 [ano_modelo |-> a,
                  qtd |-> Cardinality(do(a)),
                  renovacao_agora |-> Cardinality({i \in do(a) : prev[i].renovacao_agora}),
                  renovacao_na_proxima |-> Cardinality({i \in do(a) : prev[i].renovacao_na_proxima})]]
        pos(a) == 1 + Cardinality({b \in anos : b < a})
    IN  [k \in 1..Cardinality(anos) |-> g[CHOOSE a \in anos : pos(a) = k]]

\* agg_calendario: the rows with a due date, counted per "YYYY-MM"
AggCalendario(prev) ==
    LET df == SelectSeq(prev, LAMBDA r : NotNA(r.prox_data_por_tempo))
        mes(r) == AnoMes(r.prox_data_por_tempo.v)
        keys == SortedKeys({mes(df[i]) : i \in 1..Len(df)})
    IN  [k \in 1..Len(keys) |->
            [ano_mes |-> keys[k],
             qtd |-> Cardinality({i \in 1..Len(df) : mes(df[i]) = keys[k]})]]

\* the anomalies of one row, with a reading that equals the baseline
\* odometer counted as a regression
AnomaliasDeInclusivo(r) ==
    (IF NotNA(r.data_km_ultimo) /\ NotNA(r.data_km_base)
        /\ r.data_km_ultimo.v < r.data_km_base.v
     THEN <<[placa |-> r.placa, problema |-> "Ordem incoerente"]>> ELSE <<>>)
    \o
    (IF NotNA(r.km_ultimo) /\ NotNA(r.km_base) /\ r.km_ultimo.v <= r.km_base.v
     THEN <<[placa |-> r.placa, problema |-> "KM regrediu"]>> ELSE <<>>)

\* the anomalies of one row of the projection (the obs text is left out)
AnomaliasDe(r) ==
    (IF NotNA(r.data_km_ultimo) /\ NotNA(r.data_km_base)
        /\ r.data_km_ultimo.v < r.data_km_base.v
     THEN <<[placa |-> r.placa, problema |-> "Ordem incoerente"]>> ELSE <<>>)
    \o
    (IF NotNA(r.km_ultimo) /\ NotNA(r.km_base) /\ r.km_ultimo.v < r.km_base.v
     THEN <<[placa |-> r.placa, problema |-> "KM regrediu"]>> ELSE <<>>)

\* view_anomalias
ViewAnomalias(prev) == Flatten([i \in 1..Len(prev) |-> AnomaliasDe(prev[i])])

\* the columns that view_alertas returns
ColunasAlerta(r) ==
    [placa |-> r.placa, responsavel |-> r.responsavel, unidade |-> r.unidade,
     regiao |-> r.regiao, dias_faltando |-> r.dias_faltando,
     km_faltando |-> r.km_faltando, prox_data_por_tempo |-> r.prox_data_por_tempo,
     status |-> r.status, renovacao_agora |-> r.renovacao_agora,
     renovacao_na_proxima |-> r.renovacao_na_proxima,
     prox_real_em_dias |-> r.prox_real_em_dias]

\* view_alertas: the overdue and attention rows, sorted by status ("Atenção"
\* before "Vencido"), then dias_faltando, then km_faltando, missing last
ViewAlertas(prev) ==
    LET df == SelectSeq(prev, LAMBDA r : r.status \in {"Vencido", "Atenção"})
        c == [i \in 1..Len(df) |-> ColunasAlerta(df[i])]
        s1 == SortRows(c, [i \in 1..Len(c) |-> c[i].km_faltando])
        s2 == SortRows(s1, [i \in 1..Len(s1) |-> s1[i].dias_faltando])
    IN  SortRows(s2, [i \in 1..Len(s2) |-> Num(IF s2[i].status = "Atenção" THEN 0 ELSE 1)])

\* the position of a plate among the plates of the rows, in ascending order
PosicaoPlaca(rows, p) == Cardinality({q \in {rows[i].placa : i \in 1..Len(rows)} : StrLess(q, p)})

\* view_sem_historico: the rows without baseline date or without a latest
\* odometer reading, sorted by plate
ViewSemHistorico(prev) ==
    LET df == SelectSeq(prev, LAMBDA r : IsNA(r.data_base) \/ IsNA(r.km_ultimo))
        c == [i \in 1..Len(df) |->
                 [placa |-> df[i].placa, responsavel |-> df[i].responsavel,
                  unidade |-> df[i].unidade, data_base |-> df[i].data_base,
                  km_ultimo |-> df[i].km_ultimo, status |-> df[i].status]]
    IN  SortRows(c, [i \in 1..Len(c) |-> Num(PosicaoPlaca(c, c[i].placa))])

\* greatest common divisor of two naturals, not both 0
RECURSIVE Mdc(_, _)
Mdc(a, b) == IF b = 0 THEN a ELSE Mdc(b, a % b)

\* the number n/d (d > 0) in lowest terms: a float that is no integer
Frac(n, d) ==
    LET g == Mdc(Abs(n), d)
    IN  [n |-> TruncDiv(n, g), d |-> d \div g]

\* sum of the costs of the baseline table that are numbers
RECURSIVE SomaCustos(_)
SomaCustos(ult) ==
    IF ult = <<>> THEN 0
    ELSE (IF Head(ult).custo_rev.t = "num" THEN Head(ult).custo_rev.v ELSE 0)
         + SomaCustos(Tail(ult))

\* custo_medio of projecao_orcamento: the mean of the costs of
\* self.base_ult_revisao, 500.0 when "not custo_medio" (no cost or a mean of 0)
CustoMedio(ult) ==
    LET k == Cardinality({i \in 1..Len(ult) : ult[i].custo_rev.t = "num"})
    IN  IF k = 0 \/ SomaCustos(ult) = 0 THEN Frac(CustoReferencia, 1)
        ELSE Frac(SomaCustos(ult), k)

\* projecao_orcamento: [ano_mes, custo_previsto] per month with a due row
ProjecaoOrcamento(prev, ult) ==
    LET g == AggCalendario(prev)
        m == CustoMedio(ult)
    IN  [k \in 1..Len(g) |->
            [ano_mes |-> g[k].ano_mes, custo_previsto |-> Frac(g[k].qtd * m.n, m.d)]]

\* ------------------------------------------------------------ inputs
\* upper bound of the number of rows of the four spreadsheets together
MaxRows == 3

SeqsUpTo(S, n) == UNION {[1..k -> S] : k \in 0..n}

\* "a-1" and "B2": two vehicles, one typed in lower case with a hyphen
PlacaA == Str(<<"a", "-", "1">>)
PlacaB == Str(<<"B", "2">>)
PlacasBrutas == {PlacaA, PlacaB}

\* "Ativo" and " vendido " (lower case, padded)
StAtivo == Str(<<"A", "t", "i", "v", "o">>)
StVendido == Str(<<" ", "v", "e", "n", "d", "i", "d", "o", " ">>)
StatusBrutos == {StAtivo, StVendido}

\* 2024-06-01
Hojes == {19875}
\* 2023-06-01, 2023-06-02: due 2024-05-31 (yesterday) and 2024-06-01 (today)
DatasRev == {Num(19509), Num(19510)}
\* 2023-07-02: due 2024-07-01, 30 days ahead
DatasCad == {Num(19540)}

RespRows == [placa : PlacasBrutas, status : StatusBrutos,
             responsavel : {Str(<<"R">>)}, unidade : {Str(<<"U">>)},
             regiao : {NAN}, ano_modelo : {Num(2021)}]
RevRows == [placa : PlacasBrutas, data : DatasRev \cup {NONE}, km : {NAN},
            oficina : {Str(<<"O">>)}, custo : {NAN}]
CadRows == [placa : PlacasBrutas, status : StatusBrutos,
            data_inicio : DatasCad \cup {NONE}, ano_modelo : {NAN}]
\* fuel readings: undated, 9001 on the first date, 10001 or unreadable on the second
LeiturasExt == {<<NONE, Num(9001)>>, <<Num(19509), Num(9001)>>,
                <<Num(19511), Num(10001)>>, <<Num(19511), NAN>>}
ExtRows == {[placa |-> p, data |-> l[1], km |-> l[2]] :
               p \in PlacasBrutas, l \in LeiturasExt}

\* the object before __init__ has run
\* no report called yet.  repetida: the call before the last one was a call
\* of the same method, and antes_linhas is what that call returned
SemRelatorio == [nome |-> "", linhas |-> <<>>,
                 repetida |-> FALSE, antes_linhas |-> <<>>]

OutraNova == [pc |-> "novo", hoje |-> 0, previsao |-> <<>>]

\* no parsing helper called yet
SemSaida == [f |-> "", v |-> NONE]

NotBuilt ==
    /\ pc = "novo"
    /\ hoje = 0
    /\ relatorio = SemRelatorio
    /\ outra = OutraNova
    /\ entrada = NONE
    /\ saida = SemSaida
    /\ resp = <<>> /\ rev = <<>> /\ cad = <<>> /\ ext = <<>>
    /\ base_ult_revisao = <<>>
    /\ km_por_abastecimento = <<>>
    /\ previsao = <<>>

\* any four spreadsheets of at most MaxRows rows together
InitGeral ==
    /\ relogio \in Hojes
    /\ arq_cad \in SeqsUpTo(CadRows, MaxRows)
    /\ arq_rev \in SeqsUpTo(RevRows, MaxRows - Len(arq_cad))
    /\ arq_resp \in SeqsUpTo(RespRows, MaxRows - Len(arq_cad) - Len(arq_rev))
    /\ arq_ext \in SeqsUpTo(ExtRows, MaxRows - Len(arq_cad) - Len(arq_rev) - Len(arq_resp))
    /\ NotBuilt

\* one vehicle whose remainders sweep the thresholds of the classification:
\* an intake date from 2023-06-01 on, optionally one maintenance entry, and a
\* fuel log whose readings put km_faltando at -1, 0, 1, 999, 1000 and 1001
DatasLimiar == {Num(19508 + d) : d \in 1..33}
KmsLimiar == {Num(8999), Num(9000), Num(9001), Num(9999), Num(10000), Num(10001)}
ExtLimiar ==
    {<<>>}
    \cup {<<[placa |-> PlacaA, data |-> Num(19511), km |-> k]>> : k \in KmsLimiar}
    \cup {<<[placa |-> PlacaA, data |-> Num(19509), km |-> Num(1)],
            [placa |-> PlacaA, data |-> Num(19511), km |-> Num(k.v + 1)]>> : k \in KmsLimiar}

InitLimiar ==
    /\ relogio \in Hojes
    /\ arq_resp = <<>>
    /\ arq_rev \in {<<>>, <<[placa |-> PlacaA, data |-> Num(19509), km |-> NAN,
                            oficina |-> Str(<<"O">>), custo |-> NAN]>>}
    /\ \E d \in DatasLimiar \cup {NONE} :
          arq_cad = <<[placa |-> PlacaA, status |-> StAtivo, data_inicio |-> d,
                       ano_modelo |-> NAN]>>
    /\ arq_ext \in ExtLimiar
    /\ NotBuilt

\* one or two vehicles of the intake log with a model year around the
\* renewal age, taken in on 2023-06-01, 2024-01-01 or 2024-01-02 (due on
\* 2024-05-31, 2024-12-31 and 2025-01-01), seen on three days
HojesRenovacao == {19875, 20088, 20089}
AnosRenovacao == {NAN, Num(2020), Num(2021), Num(2022)}
DatasRenovacao == {NONE, Num(19509), Num(19723), Num(19724)}
CadRenovacao(p) == [placa : {p}, status : {StAtivo},
                    data_inicio : DatasRenovacao, ano_modelo : AnosRenovacao]

InitRenovacao ==
    /\ relogio \in HojesRenovacao
    /\ arq_resp = <<>>
    /\ arq_rev = <<>>
    /\ \/ \E a \in CadRenovacao(PlacaA) : arq_cad = <<a>>
       \/ \E a \in CadRenovacao(PlacaA), b \in CadRenovacao(PlacaB) : arq_cad = <<a, b>>
    /\ arq_ext = <<>>
    /\ NotBuilt

\* an intake log that holds one sold vehicle
CadVendido == <<[placa |-> Str(<<"X", "9">>), status |-> StVendido,
                 data_inicio |-> NONE, ano_modelo |-> NAN]>>

\* the two worked examples.  "ABC1234": serviced 2023-06-01 at 50000, fuel
\* readings 50050 on 2023-06-02 and 61200 on 2024-06-15 in either order, seen
\* on 2024-06-10; the intake log holds the vehicle or a sold one.
\* "XYZ9876": never serviced, taken in 2024-01-01, no fuel reading, seen on
\* 2024-01-15.
PlacaEx1 == Str(<<"A", "B", "C", "1", "2", "3", "4">>)
PlacaEx2 == Str(<<"X", "Y", "Z", "9", "8", "7", "6">>)
RevEx1 == <<[placa |-> PlacaEx1, data |-> Num(19509), km |-> Num(50000),
             oficina |-> Str(<<"O">>), custo |-> NAN]>>
ExtEx1a == [placa |-> PlacaEx1, data |-> Num(19510), km |-> Num(50050)]
ExtEx1b == [placa |-> PlacaEx1, data |-> Num(19889), km |-> Num(61200)]

InitExemplo1 ==
    /\ relogio = 19884
    /\ arq_resp = <<>>
    /\ arq_rev = RevEx1
    /\ arq_cad \in {CadVendido}
                   \cup {<<[placa |-> PlacaEx1, status |-> StAtivo, data_inicio |-> d,
                            ano_modelo |-> NAN]>> : d \in {NONE, Num(19000)}}
    /\ arq_ext \in {<<ExtEx1a, ExtEx1b>>, <<ExtEx1b, ExtEx1a>>}
    /\ NotBuilt

InitExemplo2 ==
    /\ relogio = 19737
    /\ arq_resp = <<>>
    /\ arq_rev = <<>>
    /\ \E a \in AnosRenovacao :
          arq_cad = <<[placa |-> PlacaEx2, status |-> StAtivo, data_inicio |-> Num(19723),
                       ano_modelo |-> a]>>
    /\ arq_ext = <<>>
    /\ NotBuilt

\* one vehicle typed in four ways, "a-1", "A 1", "A.1" and "A1", in one or
\* two records of the intake log and at most one fuel reading
PlacasPontuadas == {Str(<<"a", "-", "1">>), Str(<<"A", " ", "1">>),
                    Str(<<"A", ".", "1">>), Str(<<"A", "1">>)}

InitPlacas ==
    /\ relogio \in Hojes
    /\ arq_resp = <<>>
    /\ arq_rev = <<>>
    /\ arq_cad \in {c \in SeqsUpTo([placa : PlacasPontuadas, status : {StAtivo},
                                      data_inicio : {Num(19540)}, ano_modelo : {NAN}], 2) :
                        c # <<>>}
    /\ arq_ext \in SeqsUpTo([placa : PlacasPontuadas, data : {Num(19511)},
                              km : {Num(9001)}], 1)
    /\ NotBuilt

\* one vehicle with one or two entries of the maintenance log, each with or
\* without date (2023-06-01, 2023-06-02), odometer (0 or 9000), workshop and
\* cost, and a fuel log that starts with a reading of 0 or of 9001 (the last
\* log lists a reading of 2022-11-04 after one of 2023-06-02)
DatasRevisoes == <<NONE, Num(19509), Num(19510)>>
KmRevisoes == <<NAN, Num(0), Num(9000)>>
OficinasRevisoes == <<NAN, Str(<<"O">>), Str(<<"P">>)>>
CustosRevisoes == <<NAN, Num(300)>>
\* the entry made of the d-th date, k-th odometer, o-th workshop and c-th cost
EntradaRevisao(d, k, o, c) ==
    [placa |-> PlacaA, data |-> DatasRevisoes[d], km |-> KmRevisoes[k],
     oficina |-> OficinasRevisoes[o], custo |-> CustosRevisoes[c]]
ExtRevisoes ==
    { <<>>,
      <<[placa |-> PlacaA, data |-> Num(19509), km |-> Num(0)]>>,
      <<[placa |-> PlacaA, data |-> Num(19509), km |-> Num(0)],
        [placa |-> PlacaA, data |-> Num(19800), km |-> Num(9500)]>>,
      <<[placa |-> PlacaA, data |-> Num(19510), km |-> Num(9001)]>>,
      <<[placa |-> PlacaA, data |-> Num(19510), km |-> Num(9001)],
        [placa |-> PlacaA, data |-> Num(19300), km |-> Num(5000)]>> }

InitRevisoes ==
    /\ relogio \in Hojes
    /\ arq_resp = <<>>
    /\ \E n \in 1..2 :
          \E f \in [1..n -> (1..3) \X (1..3) \X (1..3) \X (1..2)] :
              arq_rev = [i \in 1..n |-> EntradaRevisao(f[i][1], f[i][2], f[i][3], f[i][4])]
    /\ arq_cad = <<[placa |-> PlacaA, status |-> StAtivo, data_inicio |-> NONE,
                    ano_modelo |-> NAN]>>
    /\ arq_ext \in ExtRevisoes
    /\ NotBuilt

Init ==
    \/ InitGeral
    \/ InitLimiar
    \/ InitRenovacao
    \/ InitExemplo1
    \/ InitExemplo2
    \/ InitPlacas
    \/ InitRevisoes

\* ------------------------------------------------------------ actions
\* RevisaoCore.__init__: load, sanitize, filter, derived tables, projection
Construct ==
    /\ pc = "novo"
    /\ LET respF == FilterStatus(SanitizeResp(arq_resp))
           revS == SanitizeRev(arq_rev)
           cadF == FilterStatus(SanitizeCad(arq_cad))
           extS == SanitizeExt(arq_ext)
           ult == UltimaRevisaoPorPlaca(revS)
           kmab == KmAbastecimentos(extS)
       IN  IF PrevisaoRaises(respF, revS, cadF, extS, arq_cad)
           THEN /\ pc' = "erro"
                /\ hoje' = relogio
                /\ UNCHANGED <<resp, rev, cad, ext, base_ult_revisao,
                               km_por_abastecimento, previsao>>
           ELSE /\ pc' = "pronto"
                /\ hoje' = relogio
                /\ resp' = respF
                /\ rev' = revS
                /\ cad' = cadF
                /\ ext' = extS
                /\ base_ult_revisao' = ult
                /\ km_por_abastecimento' = kmab
                /\ previsao' = BuildPrevisao(respF, revS, cadF, extS, ult, kmab, relogio)
    /\ UNCHANGED <<relogio, relatorio, outra, entrada, saida,
                   arq_resp, arq_rev, arq_cad, arq_ext>>

Next == Construct

Spec == Init /\ [][Next]_vars

\* ------------------------------------------------------------ two runs
\* 2024-06-01 and the day after
DiasRelogio == {19875, 19876}

\* midnight passes: datetime.now().date() returns the next day
Tick ==
    /\ relogio + 1 \in DiasRelogio
    /\ relogio' = relogio + 1
    /\ UNCHANGED <<relatorio, outra, pc, hoje, entrada, saida,
                   arq_resp, arq_rev, arq_cad, arq_ext,
                   resp, rev, cad, ext, base_ult_revisao, km_por_abastecimento,
                   previsao>>

\* RevisaoCore.__init__ of a second object over the same four paths; the
\* constructor takes the paths only and reads the clock for self.hoje
ConstructOutra ==
    /\ outra.pc = "novo"
    /\ LET respF == FilterStatus(SanitizeResp(arq_resp))
           revS == SanitizeRev(arq_rev)
           cadF == FilterStatus(SanitizeCad(arq_cad))
           extS == SanitizeExt(arq_ext)
           ult == UltimaRevisaoPorPlaca(revS)
           kmab == KmAbastecimentos(extS)
       IN  outra' =
               IF PrevisaoRaises(respF, revS, cadF, extS, arq_cad)
               THEN [pc |-> "erro", hoje |-> relogio, previsao |-> <<>>]
               ELSE [pc |-> "pronto", hoje |-> relogio,
                     previsao |-> BuildPrevisao(respF, revS, cadF, extS, ult, kmab, relogio)]
    /\ UNCHANGED <<relogio, relatorio, pc, hoje, entrada, saida,
                   arq_resp, arq_rev, arq_cad, arq_ext,
                   resp, rev, cad, ext, base_ult_revisao, km_por_abastecimento,
                   previsao>>

NextDuas == Construct \/ ConstructOutra \/ Tick

\* two objects built over the files of one vehicle while the clock runs
SpecDuas == InitLimiar /\ [][NextDuas]_vars

\* ------------------------------------------------------------ parsing helpers
\* The cells given to _to_num and _num: missing cells, and texts made of an
\* optional prefix, a group of digits, a separator, a group of three digits,
\* a separator and a last group, such as "R$ 1.234,56", "1,234.56", "1 234",
\* "-1,5", "x" and "".
Prefixos == {<<>>, <<"R", "$">>, <<"R", "$", " ">>, <<"x">>}
Grupos1 == {<<>>, <<"1">>, <<"-", "1">>}
Separadores == {<<>>, <<".">>, <<",">>, <<" ">>}
Grupos2 == {<<>>, <<"2", "3", "4">>}
Grupos3 == {<<>>, <<"5">>, <<"5", "6">>}

Textos ==
    {p \o a \o s1 \o b \o s2 \o c :
        p \in Prefixos, a \in Grupos1, s1 \in Separadores, b \in Grupos2,
        s2 \in Separadores, c \in Grupos3}

InitNumeros ==
    /\ relogio \in Hojes
    /\ pc = "novo"
    /\ hoje = 0
    /\ relatorio = SemRelatorio
    /\ outra = OutraNova
    /\ entrada \in {NONE, NAN} \cup {Str(t) : t \in Textos}
    /\ saida = SemSaida
    /\ arq_resp = <<>> /\ arq_rev = <<>> /\ arq_cad = <<>> /\ arq_ext = <<>>
    /\ resp = <<>> /\ rev = <<>> /\ cad = <<>> /\ ext = <<>>
    /\ base_ult_revisao = <<>>
    /\ km_por_abastecimento = <<>>
    /\ previsao = <<>>

\* a call of a parsing helper on the cell: the helpers catch every exception
Aplica(f, v) ==
    /\ saida' = [f |-> f, v |-> v]
    /\ UNCHANGED <<relogio, relatorio, outra, pc, hoje, entrada,
                   arq_resp, arq_rev, arq_cad, arq_ext,
                   resp, rev, cad, ext, base_ult_revisao, km_por_abastecimento,
                   previsao>>

\* _to_num(entrada)
AplicaToNum == Aplica("_to_num", to_num(entrada))

\* _num(entrada)
AplicaNum == Aplica("_num", num(entrada))

NextNumeros == AplicaToNum \/ AplicaNum

SpecNumeros == InitNumeros /\ [][NextNumeros]_vars

\* ------------------------------------------------------------ properties
Pronto == pc = "pronto"

Idx == 1..Len(previsao)

PlacasDe(rows) == {rows[i].placa_norm : i \in 1..Len(rows)}

\* the plates of the frames _build_previsao reads
PlacasFontes == (PlacasDe(resp) \cup PlacasDe(rev) \cup PlacasDe(cad) \cup PlacasDe(ext)) \ {<<>>}

NumLinhas(p) == Cardinality({i \in Idx : previsao[i].placa = p})

\* the service dates of the maintenance entries of plate p
DatasRevDe(p) == {rev[i].data.v : i \in {j \in 1..Len(rev) : rev[j].placa_norm = p /\ NotNA(rev[j].data)}}

\* the intake records of plate p
CadDe(p) == {i \in 1..Len(cad) : cad[i].placa_norm = p}

DatasCadDe(p) == {cad[i].data_inicio.v : i \in {j \in CadDe(p) : NotNA(cad[j].data_inicio)}}

MaxOf(S) == CHOOSE x \in S : \A y \in S : y <= x

\* the statuses that the rows of the roster and of the intake log give to plate p
StatusDe(p) ==
    {status_norm(arq_resp[i].status) :
        i \in {j \in 1..Len(arq_resp) : norm_placa(arq_resp[j].placa) = p}}
    \cup
    {status_norm(arq_cad[i].status) :
        i \in {j \in 1..Len(arq_cad) : norm_placa(arq_cad[j].placa) = p}}

\* plate p is out of the fleet: the roster or the intake log has a record of
\* it, and every such record carries a status of IGNORAR_STATUS
ForaDaFrota(p) == StatusDe(p) # {} /\ StatusDe(p) \subseteq IGNORAR_STATUS

\* C1 (coverage): once the projection is built, every plate of the frames it
\* is built from has exactly one row, and every row is the row of such a plate.
C1_Coverage ==
    Pronto =>
        /\ \A p \in PlacasFontes : NumLinhas(p) = 1
        /\ \A i \in Idx : previsao[i].placa \in PlacasFontes

\* C2 (status totality): every row has one of the four statuses, and the
\* status is Desconhecido exactly when dias_faltando and km_faltando are None.
C2_StatusTotality ==
    Pronto =>
        \A i \in Idx :
            /\ previsao[i].status \in {"Vencido", "Atenção", "Em dia", "Desconhecido"}
            /\ previsao[i].status = "Desconhecido"
                   <=> (previsao[i].dias_faltando.t = "None"
                        /\ previsao[i].km_faltando.t = "None")

\* a row without baseline date whose latest fuel reading is unreadable is
\* Desconhecido, next to a row that knows one remainder only and is not
C2_Witness ==
    /\ Pronto
    /\ \E i \in Idx : previsao[i].status = "Desconhecido"
    /\ \E i \in Idx : /\ previsao[i].status # "Desconhecido"
                      /\ previsao[i].dias_faltando.t = "num"
                      /\ previsao[i].km_faltando.t = "None"

\* C3 (classification): with at least one remainder known, the status is
\* Vencido when a known remainder is negative, otherwise Atenção when the known
\* days are below 30 or the known distance is below 1000, otherwise Em dia; an
\* unknown remainder triggers nothing and both thresholds are strict.
C3_Classification ==
    Pronto =>
        \A i \in Idx :
            LET d == previsao[i].dias_faltando
                k == previsao[i].km_faltando
                dk == d.t = "num"
                kk == k.t = "num"
                overdue == (dk /\ d.v < 0) \/ (kk /\ k.v < 0)
                attention == (dk /\ d.v < 30) \/ (kk /\ k.v < 1000)
            IN  (dk \/ kk) =>
                    previsao[i].status =
                        IF overdue THEN "Vencido"
                        ELSE IF attention THEN "Atenção"
                        ELSE "Em dia"

\* a row exactly on both thresholds (30 days, 1000 km) is Em dia
C3_Witness ==
    /\ Pronto
    /\ \E i \in Idx : /\ previsao[i].dias_faltando = Num(30)
                      /\ previsao[i].km_faltando = Num(1000)
                      /\ previsao[i].status = "Em dia"

\* C4 (no baseline): a plate with no maintenance entry and no intake date has
\* a row, and in its rows both remainders are None and the status is
\* Desconhecido.
C4_NoBaselineUnknown ==
    Pronto =>
        \A p \in PlacasFontes :
            (p \notin PlacasDe(rev) /\ DatasCadDe(p) = {}) =>
                /\ NumLinhas(p) >= 1
                /\ \A i \in Idx :
                       previsao[i].placa = p =>
                           /\ previsao[i].dias_faltando.t = "None"
                           /\ previsao[i].km_faltando.t = "None"
                           /\ previsao[i].status = "Desconhecido"

\* C5 (missing source): the constructor never raises, whichever spreadsheets
\* are empty.
C5_MissingSourceNeverRaises == pc # "erro"

\* C6 (active-fleet filter): no row of the projection belongs to a plate whose
\* roster and intake records carry an out-of-fleet status, whatever the
\* maintenance log and the fuel log hold for it.
C6_ExcludedNeverAppears ==
    Pronto => \A i \in Idx : ~ForaDaFrota(previsao[i].placa)

\* C7 (due date by time): with a baseline date, prox_data_por_tempo is the
\* baseline date plus 365 days and dias_faltando is prox_data_por_tempo minus
\* today; without one, both are None.
C7_DueByTime ==
    Pronto =>
        \A i \in Idx :
            LET r == previsao[i]
            IN  IF r.data_base.t = "num"
                THEN /\ r.prox_data_por_tempo = Num(r.data_base.v + 365)
                     /\ r.dias_faltando = Num(r.prox_data_por_tempo.v - hoje)
                ELSE /\ r.data_base = NONE
                     /\ r.prox_data_por_tempo = NONE
                     /\ r.dias_faltando = NONE

\* an overdue row (one day late) next to a row without baseline date
C7_Witness ==
    /\ Pronto
    /\ \E i \in Idx : previsao[i].data_base.t = "num" /\ previsao[i].dias_faltando = Num(-1)
    /\ \E i \in Idx : previsao[i].data_base = NONE

C9_DueDistanceDefined ==
    Pronto =>
        \A i \in Idx :
            LET r == previsao[i]
            IN  /\ r.km_meta.t = "num"
                /\ r.km_base.t = "num"
                /\ r.km_meta.v = r.km_base.v + 10000
                /\ (r.placa \notin PlacasDe(ext)) => r.km_base = Num(0)

\* C10 (distance remaining): km_faltando is km_meta minus the latest reading
\* when the plate has one, km_meta when it has none, and None only in a row
\* without baseline date.
C10_DistanceRemaining ==
    Pronto =>
        \A i \in Idx :
            LET r == previsao[i]
            IN  /\ r.km_ultimo.t = "num" =>
                       /\ r.km_meta.t = "num"
                       /\ r.km_faltando = Num(r.km_meta.v - r.km_ultimo.v)
                /\ r.km_ultimo.t = "None" => r.km_faltando = r.km_meta
                /\ r.km_faltando.t = "None" => r.data_base.t = "None"

\* ------------------------------------------------------------ reports of a fleet
\* upper bound of the number of vehicles of the fleet
MaxFrota == 3

\* "F1", "F2", ...
PlacaFrota(i) == Str(<<"F", Digitos[i + 1]>>)

\* what the spreadsheets hold for one vehicle: the attributes of its roster
\* row, its maintenance entry if any (date, workshop, cost) and its fuel
\* readings.  The costs are 300, 0, none and 401.
Perfis ==
    { \* serviced 2023-06-01, a day late, refuelled once on that day
      [responsavel |-> Str(<<"R">>), unidade |-> Str(<<"U">>), regiao |-> NAN,
       ano_modelo |-> Num(2021), rev |-> <<[data |-> Num(19509), oficina |-> Str(<<"O">>), custo |-> Num(300)]>>,
       ext |-> <<<<Num(19509), Num(9001)>>>>],
      \* serviced 2023-06-02, due today; the odometer reads less than at the service
      [responsavel |-> Str(<<"R">>), unidade |-> Str(<<" ">>), regiao |-> Str(<<"G">>),
       ano_modelo |-> Num(2021), rev |-> <<[data |-> Num(19510), oficina |-> Str(<<"O">>), custo |-> Num(0)]>>,
       ext |-> <<<<Num(19510), Num(10001)>>, <<Num(19600), Num(9001)>>>>],
      \* serviced 2023-07-02 in an unnamed workshop, due in 30 days
      [responsavel |-> Str(<<"S">>), unidade |-> Str(<<"U">>), regiao |-> Str(<<"G">>),
       ano_modelo |-> Num(2020), rev |-> <<[data |-> Num(19540), oficina |-> NAN, custo |-> NAN]>>,
       ext |-> <<>>],
      \* never serviced, model year unknown, refuelled once without odometer value
      [responsavel |-> NAN, unidade |-> Str(<<"V">>), regiao |-> NAN,
       ano_modelo |-> NAN, rev |-> <<>>, ext |-> <<<<Num(19800), NAN>>>>],
      \* serviced 2022-11-04, 11000 km driven since
      [responsavel |-> Str(<<"S">>), unidade |-> Str(<<" ">>), regiao |-> NAN,
       ano_modelo |-> Num(2022), rev |-> <<[data |-> Num(19300), oficina |-> Str(<<"P">>), custo |-> Num(401)]>>,
       ext |-> <<<<Num(19300), Num(5000)>>, <<Num(19800), Num(16000)>>>>] }

\* a fleet of one to MaxFrota vehicles in the roster
InitFrota ==
    /\ relogio \in Hojes
    /\ \E f \in UNION {[1..k -> Perfis] : k \in 1..MaxFrota} :
          /\ arq_resp = [i \in 1..Len(f) |->
                             [placa |-> PlacaFrota(i), status |-> StAtivo,
                              responsavel |-> f[i].responsavel, unidade |-> f[i].unidade,
                              regiao |-> f[i].regiao, ano_modelo |-> f[i].ano_modelo]]
          /\ arq_rev = Flatten([i \in 1..Len(f) |->
                             [k \in 1..Len(f[i].rev) |->
                                 [placa |-> PlacaFrota(i), data |-> f[i].rev[k].data, km |-> NAN,
                                  oficina |-> f[i].rev[k].oficina,
                                  custo |-> f[i].rev[k].custo]]])
          /\ arq_ext = Flatten([i \in 1..Len(f) |->
                             [k \in 1..Len(f[i].ext) |->
                                 [placa |-> PlacaFrota(i), data |-> f[i].ext[k][1],
                                  km |-> f[i].ext[k][2]]]])
    /\ arq_cad = CadVendido
    /\ NotBuilt

\* a report method is called on the constructed object and returns linhas;
\* every method works on self.previsao.copy()
Chama(nome, linhas) ==
    /\ pc = "pronto"
    /\ relatorio' = [nome |-> nome, linhas |-> linhas,
                     repetida |-> relatorio.nome = nome,
                     antes_linhas |-> IF relatorio.nome = nome
                                      THEN relatorio.linhas ELSE <<>>]
    /\ UNCHANGED <<relogio, outra, pc, hoje, entrada, saida,
                   arq_resp, arq_rev, arq_cad, arq_ext,
                   resp, rev, cad, ext, base_ult_revisao, km_por_abastecimento,
                   previsao>>

agg_calendario == Chama("agg_calendario", AggCalendario(previsao))

agg_por_responsavel == Chama("agg_por_responsavel", AggPorResponsavel(previsao))

agg_por_unidade == Chama("agg_por_unidade", AggPorUnidade(previsao))

agg_por_oficina == Chama("agg_por_oficina", AggPorOficina(previsao))

agg_por_regiao == Chama("agg_por_regiao", AggPorRegiao(previsao))

agg_por_ano_modelo == Chama("agg_por_ano_modelo", AggPorAnoModelo(previsao))

\* an anomaly detector that works on self.previsao itself and withdraws the
\* status of the rows it reports
view_anomalias_sem_copia ==
    /\ pc = "pronto"
    /\ relatorio' = [nome |-> "view_anomalias", linhas |-> ViewAnomalias(previsao),
                     repetida |-> relatorio.nome = "view_anomalias",
                     antes_linhas |-> IF relatorio.nome = "view_anomalias"
                                      THEN relatorio.linhas ELSE <<>>]
    /\ previsao' = [i \in 1..Len(previsao) |->
                       IF AnomaliasDe(previsao[i]) # <<>>
                       THEN [previsao[i] EXCEPT !.status = "Desconhecido"]
                       ELSE previsao[i]]
    /\ UNCHANGED <<relogio, outra, pc, hoje, entrada, saida,
                   arq_resp, arq_rev, arq_cad, arq_ext,
                   resp, rev, cad, ext, base_ult_revisao, km_por_abastecimento>>

view_anomalias == Chama("view_anomalias", ViewAnomalias(previsao))

view_alertas == Chama("view_alertas", ViewAlertas(previsao))

view_sem_historico == Chama("view_sem_historico", ViewSemHistorico(previsao))

projecao_orcamento ==
    Chama("projecao_orcamento", ProjecaoOrcamento(previsao, base_ult_revisao))

NextRelatorios ==
    \/ Construct
    \/ agg_calendario
    \/ agg_por_responsavel
    \/ agg_por_unidade
    \/ agg_por_oficina
    \/ agg_por_regiao
    \/ agg_por_ano_modelo
    \/ view_anomalias
    \/ view_alertas
    \/ view_sem_historico
    \/ projecao_orcamento

SpecRelatorios == InitFrota /\ [][NextRelatorios]_vars

\* C11 (renewal eligibility): in a row with a model year Y, renovacao_agora
\* is true exactly when the year of today minus Y is at least 3 and
\* renovacao_na_proxima exactly when the due date is known and its year minus
\* Y is at least 3; without a model year both are false; the status of the
\* row plays no part.
C11_Renewal ==
    Pronto =>
        \A i \in Idx :
            LET r == previsao[i]
                y == r.ano_modelo
            IN  IF y.t = "num"
                THEN /\ r.renovacao_agora <=> (YearOf(hoje) - y.v >= 3)
                     /\ r.renovacao_na_proxima <=>
                            /\ r.prox_data_por_tempo.t = "num"
                            /\ YearOf(r.prox_data_por_tempo.v) - y.v >= 3
                ELSE ~r.renovacao_agora /\ ~r.renovacao_na_proxima

\* seen in 2024: a vehicle of 2021 that is exactly three years old
\* renews now although it is Em dia, next to a vehicle of 2022 that is too
\* young now and old enough on its due date, 2025-01-01
C11_Witness ==
    /\ Pronto
    /\ YearOf(hoje) = 2024
    /\ \E i \in Idx : /\ previsao[i].ano_modelo = Num(2021)
                      /\ previsao[i].renovacao_agora
                      /\ previsao[i].status = "Em dia"
    /\ \E i \in Idx : /\ previsao[i].ano_modelo = Num(2022)
                      /\ ~previsao[i].renovacao_agora
                      /\ previsao[i].renovacao_na_proxima
                      /\ previsao[i].prox_data_por_tempo = Num(20089)

\* Vencido is more urgent than Atenção, Atenção than Em dia
Urgencia(st) ==
    CASE st = "Vencido" -> 3
      [] st = "Atenção" -> 2
      [] st = "Em dia" -> 1
      [] OTHER -> 0

\* the row is not classified by its distance: km_faltando unknown or >= 1000
ForaDoCriterioKm(r) == r.km_faltando.t # "num" \/ r.km_faltando.v >= 1000

\* C12 (monotonic urgency): of two rows of the projection with known
\* dias_faltando, neither classified by its distance, the row with fewer days
\* left has a status at least as urgent as the other.
C12_MonotonicUrgency ==
    Pronto =>
        \A a, b \in Idx :
            LET A == previsao[a]
                B == previsao[b]
            IN  (/\ A.dias_faltando.t = "num" /\ B.dias_faltando.t = "num"
                 /\ A.dias_faltando.v < B.dias_faltando.v
                 /\ ForaDoCriterioKm(A) /\ ForaDoCriterioKm(B))
                => Urgencia(A.status) >= Urgencia(B.status)

\* two rows of one projection, neither classified by its distance: due
\* today and Atenção, due in 30 days and Em dia
C12_Witness ==
    /\ Pronto
    /\ \E a, b \in Idx :
          /\ ForaDoCriterioKm(previsao[a])
          /\ ForaDoCriterioKm(previsao[b])
          /\ previsao[a].dias_faltando = Num(0) /\ previsao[a].status = "Atenção"
          /\ previsao[b].dias_faltando = Num(30) /\ previsao[b].status = "Em dia"

\* C13 (determinism): a second run over the same source records gives the
\* projection of the first run, rows, values and order; the caller who wants
\* the run reproduced hands it the today of the first run.
C13_Determinism ==
    (Pronto /\ outra.pc = "pronto") => outra.previsao = previsao

\* what the code does give: two runs that read the same date from the clock
\* build the same projection
MesmoDiaMesmaPrevisao ==
    (Pronto /\ outra.pc = "pronto" /\ outra.hoje = hoje) => outra.previsao = previsao

\* the records of a file that carry plate p
RegistrosDe(arq, p) == SelectSeq(arq, LAMBDA r : norm_placa(r.placa) = p)

\* the rows of a projection that belong to plate p
LinhasDe(rows, p) == SelectSeq(rows, LAMBDA r : r.placa = p)

\* the run over the records of plate p alone, on the same day
SoDe(p) ==
    PrevisaoDe(RegistrosDe(arq_resp, p), RegistrosDe(arq_rev, p),
               RegistrosDe(arq_cad, p), RegistrosDe(arq_ext, p), hoje)

\* C14 (per-vehicle isolation): the rows of a plate are the rows that the run
\* over the records of that plate alone builds on the same day, whenever that
\* run builds a projection: the records of the other plates change nothing.
C14_Isolation ==
    Pronto =>
        \A i \in Idx :
            LET p == previsao[i].placa
            IN  SoDe(p).pc = "pronto" =>
                    LinhasDe(previsao, p) = LinhasDe(SoDe(p).previsao, p)

\* the value of column c in the last record of plate p in a frame that gives
\* one (NAN when no record of the plate gives one)
UltimoValor(frame, p, c) ==
    LET g == RowsOf(frame, p)
    IN  LastValid([k \in 1..Len(g) |-> g[k][c]])

\* the snapshot value of an attribute: the roster's when the roster supplies
\* it, otherwise the intake log's; the intake log has the model year only
Resolvido(p, c) ==
    IF NotNA(UltimoValor(resp, p, c)) THEN UltimoValor(resp, p, c)
    ELSE IF c = "ano_modelo" THEN UltimoValor(cad, p, c)
    ELSE NAN

\* C15 (identity resolution): in every row each attribute is the value of the
\* plate's last roster record that supplies it, otherwise of its last intake
\* record; an attribute that neither source has for the plate is empty.
C15_IdentityResolution ==
    Pronto =>
        \A i \in Idx :
            \A c \in {"responsavel", "unidade", "regiao", "ano_modelo"} :
                LET want == Resolvido(previsao[i].placa, c)
                    got == previsao[i][c]
                IN  IF NotNA(want) THEN got = want ELSE IsNA(got)

Agregadores == {"agg_calendario", "agg_por_responsavel", "agg_por_unidade",
                "agg_por_oficina", "agg_por_regiao", "agg_por_ano_modelo"}

\* what the aggregator of that name returns for a projection
AggDe(nome, prev) ==
    CASE nome = "agg_calendario" -> AggCalendario(prev)
      [] nome = "agg_por_responsavel" -> AggPorResponsavel(prev)
      [] nome = "agg_por_unidade" -> AggPorUnidade(prev)
      [] nome = "agg_por_oficina" -> AggPorOficina(prev)
      [] nome = "agg_por_regiao" -> AggPorRegiao(prev)
      [] nome = "agg_por_ano_modelo" -> AggPorAnoModelo(prev)

\* the rows of self.previsao in another order
Reordenada(f) == [i \in Idx |-> previsao[f[i]]]

\* C16 (aggregation): the groups and totals that an aggregator returned are
\* the ones it returns for the rows of the projection in any other order, and
\* an aggregator called twice in a row returns the same both times.
C16_Aggregation ==
    relatorio.nome \in Agregadores =>
        /\ \A f \in Permutations(Idx) :
               Range(AggDe(relatorio.nome, Reordenada(f))) = Range(relatorio.linhas)
        /\ relatorio.repetida => relatorio.linhas = relatorio.antes_linhas

\* the by-workshop report called twice in a row on a projection of three
\* rows, two of one workshop and one of another
C16_Witness ==
    /\ relatorio.nome = "agg_por_oficina"
    /\ relatorio.repetida
    /\ Len(previsao) = 3
    /\ \E i, j, k \in Idx :
          /\ i # j
          /\ previsao[i].oficina = previsao[j].oficina
          /\ previsao[i].oficina # previsao[k].oficina
    /\ \E k \in 1..Len(relatorio.linhas) : relatorio.linhas[k].qtd = 2

\* the state is worked example 1, constructed
Exemplo1 ==
    /\ Pronto
    /\ hoje = 19884
    /\ arq_rev = RevEx1
    /\ Range(arq_ext) = {ExtEx1a, ExtEx1b}

\* C17 (worked example 1) as stated: the row of ABC1234 is due 2024-06-01,
\* 9 days ago, with a target of 60050, 1150 over it, and is Vencido.
C17_Example1 ==
    Exemplo1 =>
        /\ \E i \in Idx : previsao[i].placa = PlacaEx1.v
        /\ \A i \in Idx :
               previsao[i].placa = PlacaEx1.v =>
                   /\ previsao[i].prox_data_por_tempo = Num(19875)
                   /\ previsao[i].dias_faltando = Num(-9)
                   /\ previsao[i].km_meta = Num(60050)
                   /\ previsao[i].km_faltando = Num(-1150)
                   /\ previsao[i].status = "Vencido"

\* C17 amended: 365 days after 2023-06-01 is 2024-05-31, since 2024-02-29
\* lies in between; the row is due 2024-05-31, 10 days ago, the rest as stated.
C17_Example1Amended ==
    Exemplo1 =>
        /\ \E i \in Idx : previsao[i].placa = PlacaEx1.v
        /\ \A i \in Idx :
               previsao[i].placa = PlacaEx1.v =>
                   /\ previsao[i].data_base = Num(19509)
                   /\ previsao[i].prox_data_por_tempo = Num(19874)
                   /\ previsao[i].dias_faltando = Num(-10)
                   /\ previsao[i].km_base = Num(50050)
                   /\ previsao[i].km_meta = Num(60050)
                   /\ previsao[i].km_ultimo = Num(61200)
                   /\ previsao[i].km_faltando = Num(-1150)
                   /\ previsao[i].status = "Vencido"

\* example 1 constructed from a fuel log that lists the latest reading first
C17_Witness ==
    /\ Exemplo1
    /\ arq_ext = <<ExtEx1b, ExtEx1a>>
    /\ \E i \in Idx : previsao[i].placa = PlacaEx1.v /\ previsao[i].status = "Vencido"

\* the state is worked example 2, constructed
Exemplo2 ==
    /\ Pronto
    /\ hoje = 19737
    /\ arq_rev = <<>> /\ arq_ext = <<>>
    /\ Len(arq_cad) = 1
    /\ arq_cad[1].placa = PlacaEx2
    /\ arq_cad[1].data_inicio = Num(19723)

\* C18 (worked example 2) as stated: the row of the vehicle has the intake
\* date as baseline, a baseline odometer of 0, a target of 10000 that is also
\* the distance left, 350 days left, and is Em dia.
C18_Example2 ==
    Exemplo2 =>
        /\ \E i \in Idx : previsao[i].placa = PlacaEx2.v
        /\ \A i \in Idx :
               previsao[i].placa = PlacaEx2.v =>
                   /\ previsao[i].data_base = Num(19723)
                   /\ previsao[i].km_base = Num(0)
                   /\ previsao[i].km_meta = Num(10000)
                   /\ previsao[i].km_faltando = Num(10000)
                   /\ previsao[i].dias_faltando = Num(350)
                   /\ previsao[i].status = "Em dia"

\* C18 amended: 2024-01-01 + 365 days is 2024-12-31, 351 days after
\* 2024-01-15; the rest as stated.
C18_Example2Amended ==
    Exemplo2 =>
        /\ \E i \in Idx : previsao[i].placa = PlacaEx2.v
        /\ \A i \in Idx :
               previsao[i].placa = PlacaEx2.v =>
                   /\ previsao[i].data_base = Num(19723)
                   /\ previsao[i].km_base = Num(0)
                   /\ previsao[i].km_meta = Num(10000)
                   /\ previsao[i].km_ultimo = NONE
                   /\ previsao[i].km_faltando = Num(10000)
                   /\ previsao[i].prox_data_por_tempo = Num(20088)
                   /\ previsao[i].dias_faltando = Num(351)
                   /\ previsao[i].status = "Em dia"

\* example 2 constructed: one row, Em dia, no odometer reading
C18_Witness ==
    /\ Exemplo2
    /\ Len(previsao) = 1
    /\ previsao[1].placa = PlacaEx2.v
    /\ previsao[1].status = "Em dia"
    /\ previsao[1].km_ultimo = NONE

\* the dated fuel events of plate p in self.km_por_abastecimento
EventosDe(p) == Range(RowsOf(km_por_abastecimento, p))

\* event e comes first in the order by (|date - d0|, date)
MaisPerto(e, d0, S) ==
    \A x \in S :
        LET de == Abs(e.data_abast.v - d0)
            dx == Abs(x.data_abast.v - d0)
        IN  de < dx \/ (de = dx /\ e.data_abast.v <= x.data_abast.v)

\* C19 (nearest-to-baseline lookup): for a plate with dated fuel events,
\* _closest_refuel_to with a baseline date returns the reading and date of an
\* event that is first by (distance in days to the baseline, date), whatever
\* the order of the fuel log; without a baseline date it returns an event of
\* the latest date; for a plate without dated fuel event it returns nothing.
C19_NearestToBaseline ==
    Pronto =>
        \A p \in PlacasFontes :
            \A d0 \in DatasRev \cup {NONE} :
                LET c == closest_refuel_to(km_por_abastecimento, p, d0)
                    S == EventosDe(p)
                IN  IF S = {} THEN c = <<NONE, NONE>>
                    ELSE \E e \in S :
                             /\ c = <<e.km_abast, e.data_abast>>
                             /\ IF d0.t = "num" THEN MaisPerto(e, d0.v, S)
                                ELSE \A x \in S : x.data_abast.v <= e.data_abast.v

\* how often the report lists the problem for plate p
Relatados(problema, p) ==
    Cardinality({k \in 1..Len(relatorio.linhas) :
                    /\ relatorio.linhas[k].placa = p
                    /\ relatorio.linhas[k].problema = problema})

\* the rows of plate p whose most recent reading is dated before the
\* nearest-to-baseline reading
Invertidas(p) ==
    {i \in Idx : /\ previsao[i].placa = p
                 /\ previsao[i].data_km_ultimo.t = "num"
                 /\ previsao[i].data_km_base.t = "num"
                 /\ previsao[i].data_km_ultimo.v < previsao[i].data_km_base.v}

\* the rows of plate p whose most recent reading is below the baseline odometer
Regredidas(p) ==
    {i \in Idx : /\ previsao[i].placa = p
                 /\ previsao[i].km_ultimo.t = "num"
                 /\ previsao[i].km_base.t = "num"
                 /\ previsao[i].km_ultimo.v < previsao[i].km_base.v}

C21_ReportsLeaveProjection ==
    [][pc = "pronto" => /\ previsao' = previsao
                        /\ base_ult_revisao' = base_ult_revisao]_vars

\* view_anomalias has been called twice in a row on a projection with a
\* vehicle whose odometer went back, and the row of that vehicle is due today
C21_Witness ==
    /\ relatorio.nome = "view_anomalias"
    /\ relatorio.repetida
    /\ \E k \in 1..Len(relatorio.linhas) : \E i \in Idx :
          /\ relatorio.linhas[k].problema = "KM regrediu"
          /\ previsao[i].placa = relatorio.linhas[k].placa
          /\ previsao[i].status = "Atenção"
          /\ previsao[i].dias_faltando = Num(0)
          /\ previsao[i].km_faltando.t = "num"

\* the plates as typed in the rows of the four spreadsheets
PlacasDigitadas ==
    {arq_resp[i].placa : i \in 1..Len(arq_resp)} \cup {arq_rev[i].placa : i \in 1..Len(arq_rev)}
    \cup {arq_cad[i].placa : i \in 1..Len(arq_cad)} \cup {arq_ext[i].placa : i \in 1..Len(arq_ext)}

\* C22 (plate canonicalization): the plate of every row of the projection
\* holds upper-case letters and digits only, canonicalizing it again gives
\* the same plate, and two plates as typed stand for one vehicle (one
\* canonical plate, hence one row) exactly when they are equal once
\* put in upper case and stripped of every other character.
C22_PlateCanonicalization ==
    Pronto =>
        /\ \A i \in Idx :
               /\ Range(previsao[i].placa) \subseteq Alfanumericos
               /\ norm_placa(Str(previsao[i].placa)) = previsao[i].placa
        /\ \A a, b \in PlacasDigitadas :
               (norm_placa(a) = norm_placa(b)) <=> (norm_placa_cenarios(a) = norm_placa_cenarios(b))

\* the text without currency symbol and blanks
SemMoeda(s) == SelectSeq(s, LAMBDA c : c \notin {"R", "$", " "})

\* the text holds both "," and "."
DoisSimbolos(s) == "," \in Range(s) /\ "." \in Range(s)

\* the number a text with both symbols writes when the symbol that appears
\* last is the decimal separator and the other one separates thousands
PeloUltimoSimbolo(s) ==
    LET ult == CHOOSE i \in 1..Len(s) :
                   /\ s[i] \in {",", "."}
                   /\ \A j \in (i + 1)..Len(s) : s[j] \notin {",", "."}
        milhar == IF s[ult] = "," THEN "." ELSE ","
    IN  FloatDe(Replace(Remove(s, milhar), s[ult], "."))

\* C23 (numeric parsing): for a text cell, with currency symbol and blanks
\* left aside, (1) a text with both "," and "." that is a number when the
\* last of the two symbols is read as the decimal separator parses to that
\* number; (2) a text of digits without separator parses to its value; (3) a
\* text without any digit gives 0.0 from _num and NaN from _to_num.
C23_NumericParsing ==
    (saida.f # "" /\ entrada.t = "str") =>
        LET s == SemMoeda(entrada.v)
        IN  /\ (DoisSimbolos(s) /\ PeloUltimoSimbolo(s) # ValueError)
                   => saida.v = PeloUltimoSimbolo(s)
            /\ (~ DoisSimbolos(s) /\ "," \notin Range(s) /\ "." \notin Range(s)
                   /\ FloatDe(s) # ValueError)
                   => saida.v = FloatDe(s)
            /\ (Range(s) \cap Range(Digitos) = {})
                   => saida.v = (IF saida.f = "_num" THEN Dec(0, 0) ELSE NAN)

\* the rows of the projection that are due in the month m ("YYYY-MM")
VencemEm(m) ==
    {i \in Idx : /\ NotNA(previsao[i].prox_data_por_tempo)
                 /\ AnoMes(previsao[i].prox_data_por_tempo.v) = m}

\* the entries of the baseline table that carry a cost
ComCusto == {i \in 1..Len(base_ult_revisao) : base_ult_revisao[i].custo_rev.t = "num"}

\* C24 (cost projection): projecao_orcamento returns one row for each month
\* in which a row of the projection is due and no other row; its cost is
\* the number of rows due in the month times the mean of the costs of the
\* baseline table, and times the reference cost of 500 only when the
\* baseline table carries no cost at all.
C24_CostProjection ==
    relatorio.nome = "projecao_orcamento" =>
        LET L == relatorio.linhas
            meses == {AnoMes(previsao[i].prox_data_por_tempo.v) :
                         i \in {j \in Idx : NotNA(previsao[j].prox_data_por_tempo)}}
        IN  /\ {L[k].ano_mes : k \in 1..Len(L)} = meses
            /\ Len(L) = Cardinality(meses)
            /\ \A k \in 1..Len(L) :
                   LET qtd == Cardinality(VencemEm(L[k].ano_mes))
                   IN  L[k].custo_previsto =
                           IF ComCusto = {} THEN Frac(qtd * CustoReferencia, 1)
                           ELSE Frac(qtd * SomaCustos(base_ult_revisao), Cardinality(ComCusto))

\* plate p has an entry of the maintenance log with a service date
TemRevisaoDatada(p) == \E k \in 1..Len(rev) : rev[k].placa_norm = p /\ NotNA(rev[k].data)

\* C25 (zero odometer is discarded): no entry of the baseline table has a
\* km_na_rev of 0, and no row of a vehicle with a dated maintenance entry
\* has a baseline odometer (km_base) of 0.
C25_ZeroOdometer ==
    Pronto =>
        /\ \A k \in 1..Len(base_ult_revisao) :
               ~ (base_ult_revisao[k].km_na_rev.t = "num" /\ base_ult_revisao[k].km_na_rev.v = 0)
        /\ \A i \in Idx :
               TemRevisaoDatada(previsao[i].placa)
                   => ~ (previsao[i].km_base.t = "num" /\ previsao[i].km_base.v = 0)

\* two cells hold the same: both empty, or the same value
MesmaCelula(a, b) == IF IsNA(a) \/ IsNA(b) THEN IsNA(a) /\ IsNA(b) ELSE a = b

\* the entries of the maintenance log of plate p
EntradasDe(p) == {k \in 1..Len(rev) : rev[k].placa_norm = p}

\* C26 (baseline fields come from one entry): for a plate with several
\* maintenance entries, all dated, one of them later than the others, the
\* date, odometer, workshop and cost of the baseline table are the ones of
\* that latest entry (an odometer of 0 counting as empty), and a field that
\* the latest entry leaves empty is empty in the baseline table.
C26_BaselineOneEntry ==
    Pronto =>
        \A n \in 1..Len(base_ult_revisao) :
            LET b == base_ult_revisao[n]
                E == EntradasDe(b.placa_norm)
            IN  (/\ Cardinality(E) >= 2
                 /\ \A k \in E : NotNA(rev[k].data)
                 /\ \E k \in E : \A j \in E \ {k} : rev[j].data.v < rev[k].data.v)
                => LET u == CHOOSE k \in E : \A j \in E \ {k} : rev[j].data.v < rev[k].data.v
                       km == IF rev[u].km.t = "num" /\ rev[u].km.v = 0 THEN NAN ELSE rev[u].km
                   IN  /\ MesmaCelula(b.data_ult_rev, rev[u].data)
                       /\ MesmaCelula(b.km_na_rev, km)
                       /\ MesmaCelula(b.oficina, rev[u].oficina)
                       /\ MesmaCelula(b.custo_rev, rev[u].custo)

\* sum of the numbers of a sequence
RECURSIVE SomaSeq(_)
SomaSeq(q) == IF q = <<>> THEN 0 ELSE Head(q) + SomaSeq(Tail(q))

\* the rows of the projection whose value of column c falls into the group
\* chave, with status st
DoGrupo(c, vazio, chave, st) ==
    {i \in Idx : Cat(previsao[i][c], vazio) = chave /\ previsao[i].status = st}

\* the column and the placeholder of the three summaries with status counts
ColunaDe(nome) ==
    CASE nome = "agg_por_responsavel" -> <<"responsavel", SemResponsavel>>
      [] nome = "agg_por_unidade" -> <<"unidade", SemUnidade>>
      [] nome = "agg_por_regiao" -> <<"regiao", SemRegiao>>

\* C27 (group counts are conserved): in the summaries by responsible party,
\* unit and region the totals of the groups sum to the number of rows of the
\* projection and each total is vencido + atencao + em_dia + the Unknown rows
\* of the group; in the summaries by workshop and by model year the qtd of
\* the groups sum to the number of rows of the projection.
C27_GroupCounts ==
    LET L == relatorio.linhas
    IN  /\ relatorio.nome \in {"agg_por_responsavel", "agg_por_unidade", "agg_por_regiao"} =>
               /\ SomaSeq([k \in 1..Len(L) |-> L[k].total]) = Len(previsao)
               /\ \A k \in 1..Len(L) :
                      LET col == ColunaDe(relatorio.nome)
                          chave == L[k][col[1]]
                      IN  L[k].total = L[k].vencido + L[k].atencao + L[k].em_dia
                              + Cardinality(DoGrupo(col[1], col[2], chave, "Desconhecido"))
        /\ relatorio.nome \in {"agg_por_oficina", "agg_por_ano_modelo"} =>
               SomaSeq([k \in 1..Len(L) |-> L[k].qtd]) = Len(previsao)

\* C28 (temporal inversion is unreachable): in every row of the projection
\* in which data_km_ultimo and data_km_base are both known the first is not
\* earlier than the second, and view_anomalias called on the projection
\* returns no line "Ordem incoerente".
C28_NoTemporalInversion ==
    Pronto =>
        /\ \A i \in Idx :
               (NotNA(previsao[i].data_km_ultimo) /\ NotNA(previsao[i].data_km_base))
                   => previsao[i].data_km_ultimo.v >= previsao[i].data_km_base.v
        /\ \A k \in 1..Len(ViewAnomalias(previsao)) :
               ViewAnomalias(previsao)[k].problema # "Ordem incoerente"

\* a serviced vehicle with two fuel events, the later of them listed first:
\* the reading nearest to the service is the later one, and it is also the
\* most recent one
C28_Witness ==
    /\ Pronto
    /\ Len(km_por_abastecimento) = 2
    /\ km_por_abastecimento[1].data_abast.v > km_por_abastecimento[2].data_abast.v
    /\ \E i \in Idx :
          /\ NotNA(previsao[i].data_km_base)
          /\ previsao[i].data_km_base = km_por_abastecimento[1].data_abast
          /\ previsao[i].data_km_ultimo = previsao[i].data_km_base

\* C29 (odometer target without maintenance history): in the row of a plate
\* without dated maintenance entry km_base is 0, data_km_base is None and
\* km_meta is 10000, with or without fuel readings; when the latest fuel
\* event has an odometer value km_faltando is 10000 minus that value, and
\* the status is Vencido when the value is above 10000, whatever
\* dias_faltando is.
C29_TargetWithoutHistory ==
    Pronto =>
        \A i \in Idx :
            ~ TemRevisaoDatada(previsao[i].placa) =>
                LET r == previsao[i]
                IN  /\ r.km_base = Num(0)
                    /\ r.data_km_base = NONE
                    /\ r.km_meta = Num(IntervaloKm)
                    /\ r.km_ultimo.t = "num" =>
                           /\ r.km_faltando = Num(IntervaloKm - r.km_ultimo.v)
                           /\ r.km_ultimo.v > IntervaloKm => r.status = "Vencido"

\* a vehicle of the intake log only, due by time in 30 days or more, whose
\* latest reading is 10001
C29_Witness ==
    /\ Pronto
    /\ rev = <<>>
    /\ \E i \in Idx :
          /\ previsao[i].dias_faltando.t = "num"
          /\ previsao[i].dias_faltando.v >= LimiteDias
          /\ previsao[i].km_ultimo = Num(10001)
          /\ previsao[i].km_faltando = Num(-1)
          /\ previsao[i].status = "Vencido"

\* the most recent dated fuel events of plate p (several when they share the date)
UltimosEventos(p) ==
    {e \in EventosDe(p) : \A x \in EventosDe(p) : x.data_abast.v <= e.data_abast.v}

\* C30 (reachability of Unknown): a row has status Desconhecido only if its
\* plate has no maintenance date and no intake date and has a dated fuel
\* event, the most recent of which has no odometer value.
C30_UnknownReachability ==
    Pronto =>
        \A i \in Idx :
            previsao[i].status = "Desconhecido" =>
                LET p == previsao[i].placa
                IN  /\ DatasRevDe(p) = {}
                    /\ DatasCadDe(p) = {}
                    /\ EventosDe(p) # {}
                    /\ \E e \in UltimosEventos(p) : IsNA(e.km_abast)

====
